---- MODULE Spec2Model ----
(***************************************************************************)
(* A state-machine model of the raygun4reactnative crash-report pipeline.  *)
(*                                                                         *)
(* Two client modules are modelled:                                        *)
(*   - the stand-alone client (src/unnamed/part_000): session store,       *)
(*     payload builder, before-send filter, delivery router, interceptors; *)
(*     its specification is Spec;                                          *)
(*   - the RaygunClient facade (src/sdk/src/RaygunClient.ts): the guarded  *)
(*     public session operations; its specification is SpecClient.         *)
(***************************************************************************)
EXTENDS Integers, Sequences, FiniteSets, TLC

\* ------------------------------------------------------------------ bounds
\* calls made into the client: init, the public session operations, and the
\* fault events handed to its interceptors
MaxCalls == 3

\* ------------------------------------------------------------ plain data
EmptyObj == [k \in {} |-> ""]

\* a merge in which the keys already present win
ObjectAssign_targetWins(target, source) ==
  [k \in (DOMAIN target) \cup (DOMAIN source) |->
     IF k \in DOMAIN target THEN target[k] ELSE source[k]]

\* Object.assign({...target}, source): keys of source win
ObjectAssign(target, source) ==
  [k \in (DOMAIN target) \cup (DOMAIN source) |->
     IF k \in DOMAIN source THEN source[k] ELSE target[k]]

\* the fresh random identifier uuidv4() returns
uuidv4 == "uuid-v4"

\* the wire name of a session field name: key.slice(0,1).toUpperCase() + key.slice(1)
UpperName(k) ==
  CASE k = "identifier"  -> "Identifier"
    [] k = "firstName"   -> "FirstName"
    [] k = "fullName"    -> "FullName"
    [] k = "email"       -> "Email"
    [] k = "isAnonymous" -> "IsAnonymous"
    [] k = "message"     -> "Message"
    [] k = "category"    -> "Category"
    [] k = "level"       -> "Level"
    [] k = "timestamp"   -> "Timestamp"
    [] k = "customData"  -> "CustomData"
    [] OTHER             -> k

\* upperFirst on an object: every key relabelled, the value kept
upperFirstObj(obj) ==
  [K \in {UpperName(k) : k \in DOMAIN obj} |->
     obj[CHOOSE k \in DOMAIN obj : UpperName(k) = K]]

\* upperFirst on an array: obj.map(upperFirst), a new array
upperFirstArr(arr) == [i \in 1..Len(arr) |-> upperFirstObj(arr[i])]

\* clone / JSON.stringify of a payload: a string, not the object itself
JSONstringify(obj) == [json |-> obj]

\* a fresh session whose tag set lacks the platform tag
getCleanSession_noSeed ==
  [tags        |-> {},
   customData  |-> EmptyObj,
   breadcrumbs |-> <<>>,
   user        |-> [identifier |-> "anonymous"]]

\* getCleanSession()
getCleanSession ==
  [tags        |-> {"React Native"},
   customData  |-> EmptyObj,
   breadcrumbs |-> <<>>,
   user        |-> [identifier |-> "anonymous"]]

\* ---------------------------------------------------------------- inputs
\* addTag(...tags): the argument lists tried
TagArgs == {<<"t1">>, <<"t2", "t1">>}

\* setUser(user): a string, undefined, or a User object
UserArgs ==
  {[t |-> "string", v |-> "bob"],
   [t |-> "string", v |-> ""],
   [t |-> "undefined"],
   [t |-> "object", v |-> [identifier |-> "amy", email |-> "amy@x"]]}

\* addCustomData(customData)
DataArgs == {[a |-> 1], [b |-> 2], [a |-> 3]}

\* updateCustomData(updater): the updater tried, as a pure function
UpdaterArgs == {"dropA"}

ApplyUpdater(f, data) ==
  IF f = "dropAll" THEN EmptyObj
  ELSE [k \in (DOMAIN data) \ {"a"} |-> data[k]]

\* recordBreadcrumb(message, details?)
DetailArgs == {[level |-> "error"]}

\* init(options): the options object the application passes
OptionArgs ==
  {ObjectAssign(ObjectAssign([apiKey |-> "key-1"], n), f) :
     n \in {EmptyObj, [enableNative |-> FALSE],
            [enableNative |-> FALSE, enableRUM |-> TRUE]},
     f \in {EmptyObj, [onBeforeSend |-> "function"]}}

\* ------------------------------------------------------------ stack frames
\* A file is absent (null) or a path; a path is its segments, the text between
\* the slashes, and abs says that it starts with a slash. A method name is
\* its pieces of text in order.
NullFile == [null |-> TRUE]
Path(abs, segs) == [abs |-> abs, segs |-> segs]

\* SOURCE_MAP_PREFIX = 'file://reactnative.local/', as the segments before the
\* file name
SOURCE_MAP_PREFIX == <<"file:", "", "reactnative.local">>

\* the segments that [^\.]+(\.app|CodePush) of devicePathPattern matches
BundleDirs == {"MyApp.app", "bundleCodePush"}

\* the last segments and the texts that internalTrace matches
NoiseNames == {"ReactNativeRenderer-dev.js", "MessageQueue.js"}
NativeCode == "[native code]"

\* the debug suffix stacktrace-parser leaves on a method name
AddressAt == "(address at 12:3)"

\* frame.file.match(internalTrace)
matchInternalTrace(file) ==
  \/ Len(file.segs) > 0 /\ file.segs[Len(file.segs)] \in NoiseNames
  \/ \E i \in 1..Len(file.segs) : file.segs[i] = NativeCode

\* filterOutReactFrames(frame): !!frame.file && !frame.file.match(internalTrace)
filterOutReactFrames(frame) ==
  frame.file # NullFile /\ ~matchInternalTrace(frame.file)

\* methodName.indexOf('(address at'): the first piece that starts the suffix,
\* 0 when there is none
indexOfAddressAt(methodName) ==
  IF \E i \in 1..Len(methodName) : methodName[i] = AddressAt
  THEN CHOOSE i \in 1..Len(methodName) :
         /\ methodName[i] = AddressAt
         /\ \A j \in 1..(i - 1) : methodName[j] # AddressAt
  ELSE 0

\* String.prototype.trim on the pieces of a method name
RECURSIVE trim(_)
trim(text) ==
  IF text = <<>> THEN text
  ELSE IF Head(text) = " " THEN trim(Tail(text))
  ELSE IF text[Len(text)] = " " THEN trim(SubSeq(text, 1, Len(text) - 1))
  ELSE text

\* noAddressAt(frame)
noAddressAt(frame) ==
  LET pos == indexOfAddressAt(frame.methodName) IN
  [frame EXCEPT !.methodName =
     IF pos > 0 THEN trim(SubSeq(frame.methodName, 1, pos - 1)) ELSE @]

\* devicePathPattern.exec(file): 0 when the pattern does not match, else the
\* place of the bundle directory the greedy match ends on (a slash has to come
\* before it)
devicePathMatch(file) ==
  IF file = NullFile THEN 0
  ELSE LET hits == {i \in 1..Len(file.segs) :
                      file.segs[i] \in BundleDirs /\ (file.abs \/ i > 1)}
       IN IF hits = {} THEN 0 ELSE CHOOSE i \in hits : \A j \in hits : j <= i

\* cleanFilePath(frames)
cleanFilePath(frames) ==
  [n \in 1..Len(frames) |->
     LET frame == frames[n]
         at == devicePathMatch(frame.file)
     IN IF at > 0
        THEN [frame EXCEPT !.file =
                Path(FALSE, SOURCE_MAP_PREFIX
                              \o SubSeq(frame.file.segs, at + 1, Len(frame.file.segs)))]
        ELSE frame]

\* frames.filter(filterOutReactFrames).map(noAddressAt)
filterAndStrip(frames) ==
  LET kept == SelectSeq(frames, filterOutReactFrames)
  IN [n \in 1..Len(kept) |-> noAddressAt(kept[n])]

\* the frames parseErrorStack finds in the stack of the errors tried
RawFrames ==
  <<[file |-> Path(TRUE, <<"data", "app", "MyApp.app", "main.jsbundle">>),
     methodName |-> <<"foo", AddressAt>>, lineNumber |-> 5, column |-> 3],
    [file |-> Path(TRUE, <<"lib", "MessageQueue.js">>),
     methodName |-> <<"callFunction">>, lineNumber |-> 7, column |-> 1],
    [file |-> NullFile,
     methodName |-> <<"apply", " ", AddressAt>>, lineNumber |-> 0, column |-> 0],
    [file |-> Path(FALSE, <<"index.js">>),
     methodName |-> <<>>, lineNumber |-> 2, column |-> 9]>>

\* the errors the interceptors are handed: one well formed, one without a
\* stack, one without a message
GoodError == [message |-> "boom", stack |-> "at f (main.jsbundle:5:3)"]
NoStackError == [message |-> "boom", stack |-> ""]
NoMessageError == [message |-> "", stack |-> "at f (main.jsbundle:5:3)"]

\* parseErrorStack(error)
parseErrorStack(error) == IF error.stack = "" THEN <<>> ELSE RawFrames
ErrorArgs == {GoodError, NoStackError, NoMessageError}

\* the calls of the global handler tried: (error, isFatal)
HandlerArgs ==
  {<<GoodError, TRUE>>, <<GoodError, FALSE>>, <<NoStackError, FALSE>>,
   <<NoMessageError, FALSE>>}

\* the unhandled rejections tried
RejectionArgs == {GoodError}

\* the builds tried: (Rg4rn present, Platform.OS, __DEV__); the development
\* build is tried on one platform
PlatformArgs ==
  {<<FALSE, "ios", FALSE>>, <<TRUE, "ios", FALSE>>, <<FALSE, "android", FALSE>>,
   <<TRUE, "android", FALSE>>, <<FALSE, "ios", TRUE>>}

\* ------------------------------------------------------------------ state
VARIABLES
  \* the platform the bundle runs on (fixed for a run)
  Rg4rn,            \* NativeModules.Rg4rn is present and has an init function
  PlatformOS,       \* Platform.OS
  DEV,              \* __DEV__
  \* the stand-alone client's module state
  curSession,
  GlobalOptions,
  canEnableNative,
  \* init calls suspended on Rg4rn.hasInitialized(), with the answer each gets
  initWait,
  \* the interceptors
  handlers,         \* global handlers installed by init, chained on the app's own
  tracking,         \* the rejection tracker is enabled with processUnhandledRejection
  flushTimers,      \* setTimeout(sendCachedReports) timers pending
  flushed,          \* the API keys sendCachedReports was called with
  \* the native reporter: what hasInitialized() answers and the state last
  \* propagated to it by setTags, setUser, setCustomData, recordBreadcrumb
  native,
  \* fault events and their pipelines
  occ,
  \* the last public call and how it ended
  lastOp,
  calls,            \* calls made into the client so far
  initDone,         \* a call of init has returned true
  tagsAdded,        \* every tag added to the live session since it was created
  \* the RaygunClient facade's module state
  RaygunNativeBridge,   \* NativeModules.RaygunNativeBridge is present
  initialized,
  options,
  currentTags,
  currentUser,
  crashReporter,
  realUserMonitor,
  bridge,           \* what the facade last handed to RaygunNativeBridge
  clientOp,         \* the facade's last public call and how it ended
  clientCalls

vars == <<Rg4rn, PlatformOS, DEV, curSession, GlobalOptions, canEnableNative,
          initWait, handlers, tracking, flushTimers, flushed, native, occ,
          lastOp, calls, initDone, tagsAdded, RaygunNativeBridge, initialized,
          options, currentTags, currentUser, crashReporter, realUserMonitor,
          bridge, clientOp, clientCalls>>

clientVars == <<RaygunNativeBridge, initialized, options, currentTags, currentUser,
                crashReporter, realUserMonitor, bridge, clientOp, clientCalls>>

UndefinedOptions == [undefined |-> TRUE]
Defined(obj) == "undefined" \notin DOMAIN obj
NoPayload == [built |-> FALSE]
NoHeld == [held |-> FALSE]
NoSnap == [taken |-> FALSE]
NoOp == [op |-> "none", arg |-> "", res |-> "returned", afterInit |-> FALSE,
         native |-> FALSE]

\* getDeviceBasedId()
getDeviceBasedId == "device-1"

NoClientOp == [op |-> "none", res |-> "returned", available |-> FALSE,
               warned |-> FALSE, changed |-> FALSE, bridged |-> FALSE]

\* the facade's module state as its declarations leave it
InitFacade ==
  /\ initialized = FALSE
  /\ options = UndefinedOptions
  /\ currentTags = {}
  /\ currentUser = [identifier |-> "anonymous-" \o getDeviceBasedId,
                    isAnonymous |-> TRUE]
  /\ crashReporter = [undefined |-> TRUE]
  /\ realUserMonitor = [undefined |-> TRUE]
  /\ bridge = [crashReporting |-> FALSE, realUserMonitoring |-> FALSE,
               tags |-> {}, user |-> EmptyObj]
  /\ clientOp = NoClientOp
  /\ clientCalls = 0

\* the stand-alone client's module state as its declarations leave it
InitStandalone ==
  /\ curSession = getCleanSession
  /\ GlobalOptions = UndefinedOptions
  /\ canEnableNative = FALSE
  /\ initWait = <<>>
  /\ handlers = 0
  /\ tracking = FALSE
  /\ flushTimers = 0
  /\ flushed = <<>>
  /\ native = [initialized |-> FALSE, tags |-> {}, user |-> EmptyObj,
               customData |-> EmptyObj, breadcrumbs |-> <<>>]
  /\ occ = <<>>
  /\ lastOp = NoOp
  /\ calls = 0
  /\ initDone = FALSE
  /\ tagsAdded = {}

Init ==
  /\ \E p \in PlatformArgs : Rg4rn = p[1] /\ PlatformOS = p[2] /\ DEV = p[3]
  /\ InitStandalone
  /\ RaygunNativeBridge = TRUE
  /\ InitFacade

\* ------------------------------------------------------ session operations
\* the tag set replaced by the new tags instead of extended with them
addEach_replaces(set, tags) == {tags[i] : i \in 1..Len(tags)}

\* tags.forEach(tag => set.add(tag))
RECURSIVE addEach(_, _)
addEach(set, tags) ==
  IF tags = <<>> THEN set ELSE addEach(set \cup {Head(tags)}, Tail(tags))

\* a call into the client was made and ended with res (an init still suspended
\* is "pending"); afterInit and native record whether init had returned true and
\* whether the native reporter was enabled when the call was made
Called(op, arg, res) ==
  /\ calls < MaxCalls
  /\ calls' = calls + 1
  /\ lastOp' = [op |-> op, arg |-> arg, res |-> res, afterInit |-> initDone,
                native |-> canEnableNative]

\* the session's customData is replaced by a new object: a report that was
\* handed the old one keeps it
Unlink(o) == [o EXCEPT !.aliased = FALSE]

\* clearSession replaces the session object: a payload build that is suspended
\* on the environment lookup keeps the object it was handed
Detach(o) ==
  IF o.pc = "AwaitEnv" /\ o.held.live
  THEN [Unlink(o) EXCEPT !.held.live = FALSE,
                         !.held.tags = curSession.tags,
                         !.held.breadcrumbs = curSession.breadcrumbs]
  ELSE Unlink(o)

unchangedPlatform == UNCHANGED <<Rg4rn, PlatformOS, DEV, clientVars>>
unchangedInit ==
  UNCHANGED <<GlobalOptions, canEnableNative, initWait, handlers,
              tracking, flushTimers, flushed, initDone>>

addTag(tags) ==
  /\ Called("addTag", "", "returned")
  /\ curSession' = [curSession EXCEPT !.tags = addEach(curSession.tags, tags)]
  /\ native' = IF canEnableNative
               THEN [native EXCEPT !.tags = curSession'.tags]
               ELSE native
  /\ tagsAdded' = tagsAdded \cup {tags[i] : i \in 1..Len(tags)}
  /\ UNCHANGED occ
  /\ unchangedInit /\ unchangedPlatform

\* the userObj setUser computes from its argument
userObjOf(user) ==
  ObjectAssign(
    [firstName |-> "", fullName |-> "", email |-> "", isAnonymous |-> FALSE],
    IF user.t = "string"
    THEN IF user.v # ""
         THEN [identifier |-> user.v]
         ELSE [identifier |-> uuidv4, isAnonymous |-> TRUE]
    ELSE IF user.t = "object" THEN user.v ELSE EmptyObj)

setUser(user) ==
  /\ Called("setUser", user, "returned")
  /\ IF canEnableNative
     THEN /\ curSession' = [curSession EXCEPT !.user = userObjOf(user)]
          /\ native' = [native EXCEPT !.user = userObjOf(user)]
     ELSE UNCHANGED <<curSession, native>>
  /\ UNCHANGED <<occ, tagsAdded>>
  /\ unchangedInit /\ unchangedPlatform

addCustomData(customData) ==
  /\ Called("addCustomData", customData, IF Rg4rn THEN "returned" ELSE "TypeError")
  /\ curSession' = [curSession EXCEPT
                      !.customData = ObjectAssign(curSession.customData, customData)]
  /\ native' = IF Rg4rn
               THEN [native EXCEPT !.customData = curSession'.customData]
               ELSE native
  /\ occ' = [i \in 1..Len(occ) |-> Unlink(occ[i])]
  /\ UNCHANGED tagsAdded
  /\ unchangedInit /\ unchangedPlatform

updateCustomData(updater) ==
  /\ Called("updateCustomData", "", "returned")
  /\ curSession' = [curSession EXCEPT
                      !.customData = ApplyUpdater(updater, curSession.customData)]
  /\ native' = IF canEnableNative
               THEN [native EXCEPT !.customData = curSession'.customData]
               ELSE native
  /\ occ' = [i \in 1..Len(occ) |-> Unlink(occ[i])]
  /\ UNCHANGED tagsAdded
  /\ unchangedInit /\ unchangedPlatform

\* new Date().getTime() at the call
Now == "now"

breadcrumbOf(message, details) ==
  ObjectAssign(
    ObjectAssign([customData |-> EmptyObj, category |-> "", level |-> "info",
                  message |-> message], details),
    [timestamp |-> Now])

recordBreadcrumb(message, details) ==
  /\ Called("recordBreadcrumb", "", "returned")
  /\ curSession' = [curSession EXCEPT
                      !.breadcrumbs = Append(@, breadcrumbOf(message, details))]
  /\ native' = IF canEnableNative
               THEN [native EXCEPT
                       !.breadcrumbs = Append(@, breadcrumbOf(message, details))]
               ELSE native
  /\ UNCHANGED <<occ, tagsAdded>>
  /\ unchangedInit /\ unchangedPlatform

clearSession ==
  /\ Called("clearSession", "", "returned")
  /\ curSession' = getCleanSession
  /\ occ' = [i \in 1..Len(occ) |-> Detach(occ[i])]
  /\ tagsAdded' = {}
  /\ UNCHANGED native
  /\ unchangedInit /\ unchangedPlatform

\* -------------------------------------------------------------------- init
DefaultOptions ==
  [enableNetworkMonitoring |-> TRUE, enableNative |-> TRUE, enableRUM |-> FALSE,
   version |-> "", apiKey |-> ""]

\* what init gives its caller once it is past Rg4rn.hasInitialized()
initResult(opts, can) == IF opts.enableRUM /\ ~can THEN "Error" ELSE "true"

\* the timer set by init fires: sendCachedReports(GlobalOptions.apiKey)
flushTimer ==
  /\ flushTimers > 0
  /\ flushTimers' = flushTimers - 1
  /\ flushed' = Append(flushed, GlobalOptions.apiKey)
  /\ UNCHANGED <<GlobalOptions, canEnableNative, initWait, handlers, tracking,
                 initDone, native, curSession, occ, lastOp, calls, tagsAdded>>
  /\ unchangedPlatform

\* an init that schedules the flush whether or not the native reporter is on
initTail_flushesAlways(opts, can) ==
  IF opts.enableRUM /\ ~can
  THEN UNCHANGED <<native, handlers, tracking, flushTimers, initDone>>
  ELSE /\ native' = IF can THEN [native EXCEPT !.initialized = TRUE] ELSE native
       /\ handlers' = handlers + 1
       /\ tracking' = TRUE
       /\ flushTimers' = flushTimers + 1
       /\ initDone' = TRUE

\* an init that installs the interceptors before it checks the RUM option
initTail_checksRumLast(opts, can) ==
  /\ native' = IF can THEN [native EXCEPT !.initialized = TRUE] ELSE native
  /\ handlers' = handlers + 1
  /\ tracking' = TRUE
  /\ flushTimers' = IF can THEN flushTimers ELSE flushTimers + 1
  /\ initDone' = (initDone \/ ~(opts.enableRUM /\ ~can))

\* init from the RUM check to its return, with the module state as it is then:
\* opts is GlobalOptions and can is canEnableNative
initTail(opts, can) ==
  IF opts.enableRUM /\ ~can
  THEN \* throw Error('Can not enable RUM as native sdk not configured properly')
       UNCHANGED <<native, handlers, tracking, flushTimers, initDone>>
  ELSE /\ native' = IF can THEN [native EXCEPT !.initialized = TRUE] ELSE native
       /\ handlers' = handlers + 1
       /\ tracking' = TRUE
       /\ flushTimers' = IF can THEN flushTimers ELSE flushTimers + 1
       /\ initDone' = TRUE

\* init(opts) up to its first suspension, or to its end when it has none
init(opts) ==
  /\ GlobalOptions' = ObjectAssign(DefaultOptions, opts)
  /\ canEnableNative' =
       ((GlobalOptions'.enableNative \/ GlobalOptions'.enableRUM) /\ Rg4rn)
  /\ IF canEnableNative'
     THEN \* await Rg4rn.hasInitialized()
          /\ initWait' = Append(initWait, native.initialized)
          /\ UNCHANGED <<native, handlers, tracking, flushTimers, initDone>>
          /\ Called("init", "", "pending")
     ELSE /\ initTail(GlobalOptions', canEnableNative')
          /\ UNCHANGED initWait
          /\ Called("init", "", initResult(GlobalOptions', canEnableNative'))
  /\ UNCHANGED <<curSession, occ, tagsAdded, flushed>>
  /\ unchangedPlatform

\* Rg4rn.hasInitialized() answers and init goes on
initResume ==
  /\ initWait # <<>>
  /\ initWait' = Tail(initWait)
  /\ IF Head(initWait)
     THEN \* 'Already initialized': return false
          /\ UNCHANGED <<native, handlers, tracking, flushTimers, initDone>>
          /\ lastOp' = [op |-> "init", arg |-> "", res |-> "false",
                        afterInit |-> initDone, native |-> canEnableNative]
     ELSE /\ initTail(GlobalOptions, canEnableNative)
          /\ lastOp' = [op |-> "init", arg |-> "",
                        res |-> initResult(GlobalOptions, canEnableNative),
                        afterInit |-> initDone, native |-> canEnableNative]
  /\ UNCHANGED <<GlobalOptions, canEnableNative, curSession, occ, calls,
                 tagsAdded, flushed>>
  /\ unchangedPlatform

\* ---------------------------------------------------------------- pipeline
\* symbolicateStackTrace(stackFrame): the collaborator's answer, the frames
\* with their positions resolved (left as they are here)
symbolicateStackTrace(frames) == [stack |-> frames]

\* const stack = cleanedStackFrames.stack ||
\*                 [].filter(filterOutReactFrames).map(noAddressAt):
\* the filter and the map are applied to the empty array literal, the right
\* operand of ||, which is taken only when .stack is absent
reportedStack(cleanedStackFrames) ==
  IF "stack" \in DOMAIN cleanedStackFrames
  THEN cleanedStackFrames.stack
  ELSE filterAndStrip(<<>>)

\* the stack processUnhandledError hands to generatePayload
stackFor(error) ==
  reportedStack(IF DEV
                THEN symbolicateStackTrace(parseErrorStack(error))
                ELSE [stack |-> cleanFilePath(parseErrorStack(error))])

\* Details.Error.StackTrace: stackFrames.map(...)
toStackTrace(stackFrames) ==
  [n \in 1..Len(stackFrames) |->
     LET frame == stackFrames[n] IN
     [FileName     |-> frame.file,
      MethodName   |-> IF frame.methodName = <<>> THEN <<"[anonymous]">>
                       ELSE frame.methodName,
      LineNumber   |-> frame.lineNumber,
      ColumnNumber |-> frame.column,
      ClassName    |-> <<"line", frame.lineNumber, "column", frame.column>>]]

\* generatePayload's result: the report built from the references it holds
payloadOf(error, tags, user, customData, breadcrumbs) ==
  [built          |-> TRUE,
   Message        |-> error.message,
   StackTrace     |-> toStackTrace(stackFor(error)),
   UserCustomData |-> customData,
   Tags           |-> tags,
   User           |-> upperFirstObj(user),
   Breadcrumbs    |-> upperFirstArr(breadcrumbs)]

\* curSession.tags.add('Fatal') when the error is flagged fatal
fatalTagged(session, isFatal) ==
  IF isFatal THEN [session EXCEPT !.tags = @ \cup {"Fatal"}] ELSE session

\* processUnhandledError from the fatal tagging to the first suspension of
\* generatePayload; session is the live session after the tagging
\* o.snap records the session as it is when generatePayload is called,
\* o.asBuilt the payload as generatePayload returns it, and o.aliased that the
\* report's UserCustomData is the very object the session holds as customData
startBuild(o, session) ==
  IF PlatformOS = "android"
  THEN IF ~Rg4rn
       THEN \* Rg4rn.getEnvironmentInfo on an undefined Rg4rn: TypeError
            [o EXCEPT !.pc = "Failed", !.snap = session]
       ELSE \* await Rg4rn.getEnvironmentInfo(), holding the destructured session
            [o EXCEPT !.pc = "AwaitEnv", !.snap = session, !.aliased = TRUE,
                      !.held = [live |-> TRUE, tags |-> {}, breadcrumbs |-> <<>>,
                                user |-> session.user,
                                customData |-> session.customData]]
  ELSE LET payload == payloadOf(o.error, session.tags, session.user,
                                session.customData, session.breadcrumbs)
       IN [o EXCEPT !.pc = "Built", !.snap = session, !.aliased = TRUE,
                    !.payload = payload, !.asBuilt = payload]

\* the error is malformed: !error || !error.stack
malformed(error) == error.stack = ""

\* processUnhandledError(error, isFatal) up to its first suspension
enter(o, session) ==
  IF malformed(o.error) THEN [o EXCEPT !.pc = "Malformed"]
  ELSE IF DEV THEN [o EXCEPT !.pc = "Symbolicating"]
  ELSE startBuild(o, fatalTagged(session, o.isFatal))

\* the live session after a pipeline ran from pc0 to its next suspension
sessionAfter(o, reached) ==
  IF reached.pc \in {"Malformed", "Symbolicating"} THEN curSession
  ELSE fatalTagged(curSession, o.isFatal)

newOcc(src, error, isFatal, level) ==
  [src |-> src, error |-> error, isFatal |-> isFatal, level |-> level,
   pc |-> "Captured", held |-> NoHeld, snap |-> NoSnap, payload |-> NoPayload,
   asBuilt |-> NoPayload, aliased |-> FALSE,
   filter |-> "none", nativeCalls |-> <<>>, directCalls |-> <<>>,
   viaNative |-> FALSE, prevCalls |-> 0, runs |-> 1]

unchangedClient ==
  UNCHANGED <<GlobalOptions, canEnableNative, initWait, handlers,
              tracking, flushTimers, flushed, initDone, native>>

\* the pipeline of a new fault event starts
capture(src, error, isFatal, level) ==
  LET o == newOcc(src, error, isFatal, level)
      r == enter(o, curSession)
  IN /\ Called("fault", "", "returned")
     /\ occ' = Append(occ, r)
     /\ curSession' = sessionAfter(o, r)
     /\ tagsAdded' = tagsAdded \cup (curSession'.tags \ curSession.tags)
     /\ unchangedClient /\ unchangedPlatform

\* the global handler installed by init is called with an uncaught error
globalHandler(error, isFatal) ==
  /\ handlers >= 1
  /\ capture("handler", error, isFatal, handlers)

\* the rejection tracker reports an unhandled rejection
processUnhandledRejection(error) ==
  /\ tracking
  /\ capture("rejection", error, FALSE, 0)

\* symbolicateStackTrace answers
symbolicated(i) ==
  /\ occ[i].pc = "Symbolicating"
  /\ curSession' = fatalTagged(curSession, occ[i].isFatal)
  /\ occ' = [occ EXCEPT ![i] = startBuild(occ[i], curSession')]
  /\ tagsAdded' = tagsAdded \cup (curSession'.tags \ curSession.tags)
  /\ UNCHANGED <<calls, lastOp>>
  /\ unchangedClient /\ unchangedPlatform

\* Rg4rn.getEnvironmentInfo() answers and generatePayload returns the report
environmentInfo(i) ==
  LET o == occ[i]
      tags == IF o.held.live THEN curSession.tags ELSE o.held.tags
      crumbs == IF o.held.live THEN curSession.breadcrumbs ELSE o.held.breadcrumbs
      payload == payloadOf(o.error, tags, o.held.user, o.held.customData, crumbs)
  IN /\ o.pc = "AwaitEnv"
     /\ occ' = [occ EXCEPT ![i] =
                  [o EXCEPT !.pc = "Built", !.held = NoHeld,
                            !.payload = payload, !.asBuilt = payload]]
     /\ UNCHANGED <<curSession, tagsAdded, calls, lastOp>>
     /\ unchangedClient /\ unchangedPlatform

\* what onBeforeSend may do when it is called: answer, throw, or write into
\* the payload it was handed and answer true
FilterResults == {"true", "false", "throws", "tampers"}

\* the writes of a tampering filter: payload.Details.Tags.push('forged') and
\* payload.Details.UserCustomData.forged = true
Forged == [forged |-> TRUE]

\* Object.freeze(payload) freezes the payload's own two properties, OccurredOn
\* and Details, and nothing below them: the writes go through
tamper(payload) ==
  [payload EXCEPT !.Tags = @ \cup {"forged"},
                  !.UserCustomData = ObjectAssign(@, Forged)]

\* the write into UserCustomData as a report sees it that shares the object
\* and is not yet handed to a transport (o.payload is then what was handed over)
written(o) ==
  IF ~o.aliased THEN o
  ELSE IF o.pc = "AwaitEnv"
       THEN [o EXCEPT !.held.customData = ObjectAssign(@, Forged)]
  ELSE IF o.pc = "Built"
       THEN [o EXCEPT !.payload.UserCustomData = ObjectAssign(@, Forged)]
  ELSE o

\* a router that also sends directly what it hands to the native reporter
route_bothPaths(o) ==
  LET direct == [payload |-> o.payload, apiKey |-> GlobalOptions.apiKey] IN
  IF canEnableNative
  THEN [o EXCEPT !.pc = "Sending", !.viaNative = TRUE,
                 !.nativeCalls = Append(@, [payload |-> JSONstringify(o.payload),
                                            apiKey |-> GlobalOptions.apiKey]),
                 !.directCalls = Append(@, direct)]
  ELSE [o EXCEPT !.pc = "Sending", !.viaNative = FALSE,
                 !.directCalls = Append(@, direct)]

\* the report is handed to one transport
route(o) ==
  IF canEnableNative
  THEN [o EXCEPT !.pc = "HandedToNative", !.viaNative = TRUE,
                 !.nativeCalls = Append(@, [payload |-> JSONstringify(o.payload),
                                            apiKey |-> GlobalOptions.apiKey])]
  ELSE [o EXCEPT !.pc = "Sending", !.viaNative = FALSE,
                 !.directCalls = Append(@, [payload |-> o.payload,
                                            apiKey |-> GlobalOptions.apiKey])]

\* a pipeline that sends whatever the filter answers
filtered_ignoresFalse(o, result) ==
  IF result = "throws" THEN [o EXCEPT !.pc = "Failed", !.filter = result]
  ELSE route([o EXCEPT !.filter = result])

\* processUnhandledError after generatePayload: the filter, then the router
filtered(o, result) ==
  IF result = "false" THEN [o EXCEPT !.pc = "Suppressed", !.filter = result]
  ELSE IF result = "throws" THEN [o EXCEPT !.pc = "Failed", !.filter = result]
  ELSE route([o EXCEPT !.filter = result])

filterAndRoute(i, result) ==
  /\ occ[i].pc = "Built"
  /\ IF "onBeforeSend" \in DOMAIN GlobalOptions
     THEN result \in FilterResults
     ELSE result = "unset"
  /\ IF result = "tampers"
     THEN /\ occ' = [j \in 1..Len(occ) |->
                      IF j = i
                      THEN filtered([occ[i] EXCEPT !.payload = tamper(@)], "true")
                      ELSE IF occ[i].aliased THEN written(occ[j]) ELSE occ[j]]
          /\ curSession' = IF occ[i].aliased
                           THEN [curSession EXCEPT
                                   !.customData = ObjectAssign(@, Forged)]
                           ELSE curSession
     ELSE /\ occ' = [occ EXCEPT ![i] = filtered(occ[i], result)]
          /\ UNCHANGED curSession
  /\ UNCHANGED <<tagsAdded, calls, lastOp>>
  /\ unchangedClient /\ unchangedPlatform

\* the direct transport's sendCrashReport settles
transportReply(i, ok) ==
  /\ occ[i].pc = "Sending"
  /\ occ' = [occ EXCEPT ![i].pc = IF ok THEN "Delivered" ELSE "Queued"]
  /\ UNCHANGED <<curSession, tagsAdded, calls, lastOp>>
  /\ unchangedClient /\ unchangedPlatform

\* the pipeline returned normally
Completed == {"Malformed", "Suppressed", "HandedToNative", "Delivered", "Queued"}

\* the handler goes on after `await processUnhandledError`: prevHandler is the
\* handler an earlier init installed, or the application's own
callPrev(o, session) ==
  IF o.level > 1
  THEN enter([o EXCEPT !.level = @ - 1, !.pc = "Captured", !.payload = NoPayload,
                       !.snap = NoSnap, !.asBuilt = NoPayload, !.aliased = FALSE,
                       !.filter = "none", !.nativeCalls = <<>>,
                       !.directCalls = <<>>, !.runs = @ + 1], session)
  ELSE [o EXCEPT !.level = 0, !.pc = "Chained", !.prevCalls = @ + 1]

handlerResume(i) ==
  LET r == callPrev(occ[i], curSession) IN
  /\ occ[i].src = "handler"
  /\ occ[i].pc \in Completed
  /\ occ' = [occ EXCEPT ![i] = r]
  /\ curSession' = IF r.pc = "Chained" THEN curSession
                   ELSE sessionAfter(occ[i], r)
  /\ tagsAdded' = tagsAdded \cup (curSession'.tags \ curSession.tags)
  /\ UNCHANGED <<calls, lastOp>>
  /\ unchangedClient /\ unchangedPlatform

\* ------------------------------------------------------------ specification
Next ==
  \/ \E opts \in OptionArgs : init(opts)
  \/ initResume
  \/ \E tags \in TagArgs : addTag(tags)
  \/ \E user \in UserArgs : setUser(user)
  \/ \E data \in DataArgs : addCustomData(data)
  \/ \E updater \in UpdaterArgs : updateCustomData(updater)
  \/ \E details \in DetailArgs : recordBreadcrumb("m", details)
  \/ clearSession
  \/ \E a \in HandlerArgs : globalHandler(a[1], a[2])
  \/ \E error \in RejectionArgs : processUnhandledRejection(error)
  \/ \E i \in 1..Len(occ) : symbolicated(i)
  \/ \E i \in 1..Len(occ) : environmentInfo(i)
  \/ \E i \in 1..Len(occ), result \in FilterResults \cup {"unset"} :
        filterAndRoute(i, result)
  \/ \E i \in 1..Len(occ), ok \in BOOLEAN : transportReply(i, ok)
  \/ \E i \in 1..Len(occ) : handlerResume(i)
  \/ flushTimer

Spec == Init /\ [][Next]_vars

\* the fault events of the pipeline specification: an uncaught fatal error and
\* a malformed one for the global handler, the rejection tracker has its own
PipelineFaults == {<<GoodError, TRUE>>, <<NoStackError, FALSE>>}

\* init, the interceptors and the pipelines from capture to their outcome, with
\* the session left to the pipelines
NextPipeline ==
  \/ \E opts \in OptionArgs : init(opts)
  \/ initResume
  \/ \E a \in PipelineFaults : globalHandler(a[1], a[2])
  \/ \E error \in RejectionArgs : processUnhandledRejection(error)
  \/ \E i \in 1..Len(occ) : symbolicated(i)
  \/ \E i \in 1..Len(occ) : environmentInfo(i)
  \/ \E i \in 1..Len(occ), result \in FilterResults \cup {"unset"} :
        filterAndRoute(i, result)
  \/ \E i \in 1..Len(occ), ok \in BOOLEAN : transportReply(i, ok)
  \/ \E i \in 1..Len(occ) : handlerResume(i)

SpecPipeline == Init /\ [][NextPipeline]_vars

\* the session operations, init with its flush timer, and the fault events up
\* to the point where their pipelines have tagged the session and started to
\* build the report; a timer that is set fires in the end
NextSession ==
  \/ \E opts \in OptionArgs : init(opts)
  \/ initResume
  \/ \E tags \in TagArgs : addTag(tags)
  \/ \E user \in UserArgs : setUser(user)
  \/ \E data \in DataArgs : addCustomData(data)
  \/ \E updater \in UpdaterArgs : updateCustomData(updater)
  \/ \E details \in DetailArgs : recordBreadcrumb("m", details)
  \/ clearSession
  \/ \E a \in HandlerArgs : globalHandler(a[1], a[2])
  \/ \E error \in RejectionArgs : processUnhandledRejection(error)
  \/ \E i \in 1..Len(occ) : symbolicated(i)
  \/ flushTimer

SpecSession == Init /\ [][NextSession]_vars /\ WF_vars(flushTimer)

\* ------------------------------------------------- the RaygunClient facade
\* init(raygunClientOptions): the options tried
ClientOptionArgs ==
  [enableCrashReporting : BOOLEAN, disableNativeCrashReporting : BOOLEAN,
   enableRealUserMonitoring : BOOLEAN]

\* crashReportingAvailable(calledFrom): warns and answers false unless init has
\* run and created the CrashReporter with crash reporting enabled
crashReportingAvailable ==
  initialized /\ Defined(crashReporter) /\ options.enableCrashReporting

\* realUserMonitoringAvailable(calledFrom)
realUserMonitoringAvailable ==
  initialized /\ Defined(realUserMonitor) /\ options.enableRealUserMonitoring

\* the CrashReporter class holds the session of the crash-report pipeline
CrashReporter_new(user, tags) ==
  [tags |-> tags, user |-> user, customData |-> EmptyObj, breadcrumbs |-> <<>>]

CrashReporter_addTags(cr, tags) == [cr EXCEPT !.tags = addEach(@, tags)]

CrashReporter_setUser(cr, user) == [cr EXCEPT !.user = user]

CrashReporter_addCustomData(cr, data) ==
  [cr EXCEPT !.customData = ObjectAssign(@, data)]

CrashReporter_updateCustomData(cr, updater) ==
  [cr EXCEPT !.customData = ApplyUpdater(updater, @)]

CrashReporter_recordBreadcrumb(cr, message, details) ==
  [cr EXCEPT !.breadcrumbs = Append(@, breadcrumbOf(message, details))]

\* a public call of the facade was made
ClientCalled(op, res, available, warned, bridged) ==
  /\ clientCalls < MaxCalls
  /\ clientCalls' = clientCalls + 1
  /\ clientOp' = [op |-> op, res |-> res, available |-> available,
                  warned |-> warned,
                  changed |-> (<<currentTags', currentUser', crashReporter'>>
                                 # <<currentTags, currentUser, crashReporter>>),
                  bridged |-> bridged]

unchangedStandalone ==
  UNCHANGED <<Rg4rn, PlatformOS, DEV, curSession, GlobalOptions, canEnableNative,
              initWait, handlers, tracking, flushTimers, flushed, native, occ,
              lastOp,
              calls, initDone, tagsAdded, RaygunNativeBridge>>

Client_init(o) ==
  LET needsBridge1 == o.enableCrashReporting /\ ~o.disableNativeCrashReporting
      threw1 == needsBridge1 /\ ~RaygunNativeBridge
      threw2 == ~threw1 /\ o.enableRealUserMonitoring /\ ~RaygunNativeBridge
  IN
  IF initialized
  THEN \* 'Already initialized': return false
       /\ UNCHANGED <<initialized, options, currentTags, currentUser,
                      crashReporter, realUserMonitor, bridge>>
       /\ unchangedStandalone
       /\ ClientCalled("init", "false", FALSE, FALSE, FALSE)
  ELSE /\ options' = o
       /\ crashReporter' = IF o.enableCrashReporting
                           THEN CrashReporter_new(currentUser, currentTags)
                           ELSE crashReporter
       /\ realUserMonitor' = IF ~threw1 /\ o.enableRealUserMonitoring
                             THEN [user |-> currentUser]
                             ELSE realUserMonitor
       /\ bridge' = IF RaygunNativeBridge
                    THEN [bridge EXCEPT
                            !.crashReporting = @ \/ needsBridge1,
                            !.realUserMonitoring = @ \/ o.enableRealUserMonitoring]
                    ELSE bridge
       /\ initialized' = (~threw1 /\ ~threw2)
       /\ UNCHANGED <<currentTags, currentUser>>
       /\ unchangedStandalone
       /\ ClientCalled("init", IF threw1 \/ threw2 THEN "TypeError" ELSE "true",
                       FALSE, FALSE,
                       RaygunNativeBridge
                         /\ (needsBridge1 \/ o.enableRealUserMonitoring))

\* the tail of addTag and setUser: if (!options.disableNativeCrashReporting)
\* RaygunNativeBridge.<call>: the outcome, and whether the bridge was called
bridgeTail ==
  IF ~Defined(options) THEN [res |-> "TypeError", bridged |-> FALSE]
  ELSE IF options.disableNativeCrashReporting
       THEN [res |-> "returned", bridged |-> FALSE]
  ELSE IF RaygunNativeBridge THEN [res |-> "returned", bridged |-> TRUE]
  ELSE [res |-> "TypeError", bridged |-> FALSE]

Client_addTag(tags) ==
  /\ currentTags' = addEach(currentTags, tags)
  /\ crashReporter' = IF crashReportingAvailable
                      THEN CrashReporter_addTags(crashReporter, tags)
                      ELSE crashReporter
  /\ bridge' = IF bridgeTail.bridged
               THEN [bridge EXCEPT !.tags = currentTags']
               ELSE bridge
  /\ UNCHANGED <<initialized, options, currentUser, realUserMonitor>>
  /\ unchangedStandalone
  /\ ClientCalled("addTag", bridgeTail.res, crashReportingAvailable,
                  ~crashReportingAvailable, bridgeTail.bridged)

\* the userObj the facade's setUser computes from its argument
Client_userObjOf(user) ==
  ObjectAssign(
    [firstName |-> "", fullName |-> "", email |-> "", isAnonymous |-> TRUE],
    IF user.t = "string"
    THEN IF user.v # ""
         THEN [identifier |-> user.v, isAnonymous |-> TRUE]
         ELSE [identifier |-> "anonymous-" \o getDeviceBasedId,
               isAnonymous |-> TRUE]
    ELSE IF user.t = "object" THEN user.v ELSE EmptyObj)

Client_setUser(user) ==
  /\ currentUser' = Client_userObjOf(user)
  /\ crashReporter' = IF crashReportingAvailable
                      THEN CrashReporter_setUser(crashReporter, currentUser')
                      ELSE crashReporter
  /\ realUserMonitor' = IF realUserMonitoringAvailable
                        THEN [user |-> currentUser']
                        ELSE realUserMonitor
  /\ bridge' = IF bridgeTail.bridged
               THEN [bridge EXCEPT !.user = currentUser']
               ELSE bridge
  /\ UNCHANGED <<initialized, options, currentTags>>
  /\ unchangedStandalone
  /\ ClientCalled("setUser", bridgeTail.res, crashReportingAvailable,
                  ~crashReportingAvailable \/ ~realUserMonitoringAvailable,
                  bridgeTail.bridged)

\* recordBreadcrumb, addCustomData, updateCustomData: return at once unless
\* crash reporting is available, else hand the call to the CrashReporter
guarded(op, after) ==
  /\ crashReporter' = IF crashReportingAvailable THEN after ELSE crashReporter
  /\ UNCHANGED <<initialized, options, currentTags, currentUser,
                 realUserMonitor, bridge>>
  /\ unchangedStandalone
  /\ ClientCalled(op, "returned", crashReportingAvailable,
                  ~crashReportingAvailable, FALSE)

Client_recordBreadcrumb(message, details) ==
  guarded("recordBreadcrumb",
          CrashReporter_recordBreadcrumb(crashReporter, message, details))

Client_addCustomData(customData) ==
  guarded("addCustomData", CrashReporter_addCustomData(crashReporter, customData))

Client_updateCustomData(updater) ==
  guarded("updateCustomData",
          CrashReporter_updateCustomData(crashReporter, updater))

InitClient ==
  /\ Rg4rn = FALSE
  /\ PlatformOS = "ios"
  /\ DEV = FALSE
  /\ InitStandalone
  /\ RaygunNativeBridge \in BOOLEAN
  /\ InitFacade

NextClient ==
  \/ \E o \in ClientOptionArgs : Client_init(o)
  \/ \E tags \in TagArgs : Client_addTag(tags)
  \/ \E user \in UserArgs : Client_setUser(user)
  \/ \E details \in DetailArgs : Client_recordBreadcrumb("m", details)
  \/ \E data \in DataArgs : Client_addCustomData(data)
  \/ \E updater \in UpdaterArgs : Client_updateCustomData(updater)

SpecClient == InitClient /\ [][NextClient]_vars

\* ------------------------------------------------------------------ claims
Occs == 1..Len(occ)
Sent(o) == Len(o.nativeCalls) + Len(o.directCalls)

\* C1: a pipeline run whose configured filter answered false has called neither
\* transport; one whose filter answered true, or that found no filter
\* configured, has made exactly one transmission attempt; for every fault
\* event and every interleaving of the pipelines.
C1_FilterGatesTransmission ==
  \A i \in Occs :
    /\ occ[i].filter = "false" => Sent(occ[i]) = 0
    /\ occ[i].filter \in {"true", "unset"} => Sent(occ[i]) = 1

\* two fault events in one run: one suppressed by the filter, one sent once
C1_Witness ==
  \E i, j \in Occs :
    /\ occ[i].filter = "false" /\ occ[i].pc = "Suppressed"
    /\ occ[j].filter = "true" /\ Sent(occ[j]) = 1

\* C2: the payload of a fault event carries the "Fatal" tag if and only if
\* that very event was flagged fatal (the application adds no "Fatal" tag of
\* its own in this model).
C2_FatalIffFlagged ==
  \A i \in Occs :
    occ[i].payload.built => (("Fatal" \in occ[i].payload.Tags) <=> occ[i].isFatal)

\* C3: the native flag is set exactly when the options ask for the native
\* reporter and the bridge is present, and a report that passed the filter went
\* down exactly one path, chosen by that flag: serialized payload and API key
\* to the native reporter and nothing to the direct transport, or payload and
\* API key to the direct transport and nothing to the native reporter.
C3_OnePathByNativeFlag ==
  /\ canEnableNative <=>
       /\ Defined(GlobalOptions)
       /\ Rg4rn
       /\ (GlobalOptions.enableNative \/ GlobalOptions.enableRUM)
  /\ \A i \in Occs :
       occ[i].filter \in {"true", "unset"} =>
         IF occ[i].viaNative
         THEN /\ occ[i].nativeCalls =
                   <<[payload |-> JSONstringify(occ[i].payload),
                      apiKey |-> GlobalOptions.apiKey]>>
              /\ occ[i].directCalls = <<>>
         ELSE /\ occ[i].directCalls =
                   <<[payload |-> occ[i].payload, apiKey |-> GlobalOptions.apiKey]>>
              /\ occ[i].nativeCalls = <<>>

\* a report handed to the native reporter
C3_Witness ==
  \E i \in Occs :
    /\ occ[i].pc = "HandedToNative" /\ occ[i].viaNative
    /\ Len(occ[i].nativeCalls) = 1 /\ occ[i].directCalls = <<>>

\* C4: for every error passed to the installed global handler, once the handler
\* has ended the previously installed handler has been called exactly once, it
\* is never called more than once, and it is called only after the pipeline
\* has completed.
C4_PrevHandlerOnce ==
  \A i \in Occs :
    occ[i].src = "handler" =>
      /\ occ[i].pc \in {"Chained", "Failed"} => occ[i].prevCalls = 1
      /\ occ[i].prevCalls > 0 => occ[i].pc = "Chained"
      /\ occ[i].prevCalls <= 1

\* C5: a session operation of the facade that is called while crash reporting
\* is not available (before a successful init, or disabled by the options)
\* warns, changes no session state, calls no bridge method, returns normally.
C5_UnavailableIsNoOp ==
  (clientOp.op \notin {"none", "init"} /\ ~clientOp.available) =>
     /\ clientOp.warned
     /\ ~clientOp.changed
     /\ ~clientOp.bridged
     /\ clientOp.res = "returned"

\* C6: a session operation called after init has returned true returns
\* normally, whether the native reporter is active, absent or disabled.
C6_NoThrowAfterInit ==
  (lastOp.op \notin {"none", "init", "fault"} /\ lastOp.afterInit) =>
     lastOp.res = "returned"

\* C7: after setUser(u), called with a string or a User object once init has
\* returned true, in every configuration the session's user is the user object
\* derived from u alone.
C7_SetUserOverwrites ==
  (lastOp.op = "setUser" /\ lastOp.afterInit /\ lastOp.arg.t # "undefined") =>
     curSession.user = userObjOf(lastOp.arg)

\* C8: where setUser stores the user it computes (called after init has
\* returned true, with the native reporter enabled): an empty or undefined
\* argument gives a non-empty identifier and isAnonymous true, a non-empty
\* string s gives identifier s and isAnonymous false, and the session's user
\* has a non-empty identifier.
C8_SetUserIdentifier ==
  (lastOp.op = "setUser" /\ lastOp.native /\ lastOp.afterInit) =>
    LET u == curSession.user
        a == lastOp.arg
        anonymous == "isAnonymous" \in DOMAIN u /\ u.isAnonymous
    IN /\ "identifier" \in DOMAIN u /\ u.identifier # ""
       /\ (a.t = "undefined" \/ (a.t = "string" /\ a.v = "")) => anonymous
       /\ (a.t = "string" /\ a.v # "") => (u.identifier = a.v /\ ~anonymous)

\* C9: the session's tag set is exactly the seed of the session together with
\* every tag added since: the union, whatever the order and the repetitions.
C9_TagsAreUnion ==
  curSession.tags = getCleanSession.tags \cup tagsAdded

\* three calls of addTag have left both tags in the set
C9_Witness ==
  /\ lastOp.op = "addTag" /\ calls = MaxCalls /\ occ = <<>> /\ ~Defined(GlobalOptions)
  /\ curSession.tags = {"React Native", "t1", "t2"}

\* C10: every call addCustomData(d) leaves custom data with the keys of the
\* old data and of d, each key of d mapped to d's value and every other key
\* to its old value.
C10_ShallowMergeLastWins ==
  [][(lastOp'.op = "addCustomData" /\ calls' = calls + 1) =>
       LET d == lastOp'.arg
           c == curSession.customData
           n == curSession'.customData
       IN /\ DOMAIN n = (DOMAIN c) \cup (DOMAIN d)
          /\ \A k \in DOMAIN n : n[k] = IF k \in DOMAIN d THEN d[k] ELSE c[k]]_vars

\* {a:1}, {b:2}, then {a:3}: the data is {a:3, b:2}
C10_Witness ==
  /\ lastOp.op = "addCustomData" /\ lastOp.arg = [a |-> 3]
  /\ curSession.customData = [a |-> 3, b |-> 2]

\* C11: every call of clearSession leaves the session with the platform tag as
\* its only tag, empty custom data and an empty breadcrumb trail, whatever
\* session operations and fault events (fatal ones included) came before, in
\* one step (no state in between has part of the old session); and a
\* recordBreadcrumb that follows it leaves a trail of length exactly 1.
C11_ClearResetsSession ==
  [][/\ (lastOp'.op = "clearSession" /\ calls' = calls + 1) =>
          /\ curSession'.tags = {"React Native"}
          /\ curSession'.customData = EmptyObj
          /\ curSession'.breadcrumbs = <<>>
     /\ (lastOp.op = "clearSession" /\ lastOp'.op = "recordBreadcrumb"
           /\ calls' = calls + 1) =>
          Len(curSession'.breadcrumbs) = 1]_vars

\* a fatal error tagged the session and its report was built, then the session
\* was cleared
C11_Witness ==
  /\ lastOp.op = "clearSession"
  /\ \E i \in Occs : occ[i].payload.built /\ "Fatal" \in occ[i].payload.Tags
  /\ curSession.tags = {"React Native"}
  /\ curSession.customData = EmptyObj /\ curSession.breadcrumbs = <<>>

\* the pipeline of the fault event ran to its end
Ended == {"HandedToNative", "Delivered", "Queued", "Chained"}

\* C12: an error that lacks its message or its stack gets no payload and no
\* transport call, and nothing else loses a report: every error that has both,
\* once its pipeline has run to its end, has been handed to a transport (unless
\* the configured filter answered false, the intentional non-delivery).
C12_OnlyMalformedDropped ==
  \A i \in Occs :
    LET o == occ[i] IN
    IF o.error.message = "" \/ o.error.stack = ""
    THEN ~o.payload.built /\ Sent(o) = 0
    ELSE (o.pc \in Ended /\ o.filter # "false") => Sent(o) = 1

\* C13: a call of init with enableRUM set where the native module is absent
\* ends with the error thrown to the caller, and that call installs no global
\* handler, enables no rejection tracker, schedules no flush and calls no
\* method of the native bridge.
C13_FailedInitInstallsNothing ==
  [][(lastOp'.op = "init" /\ calls' = calls + 1
        /\ GlobalOptions'.enableRUM /\ ~Rg4rn) =>
       /\ lastOp'.res = "Error"
       /\ UNCHANGED <<handlers, tracking, flushTimers, native, initWait>>]_vars

\* init has thrown and no interceptor is installed
C13_Witness ==
  /\ lastOp.op = "init" /\ lastOp.res = "Error"
  /\ GlobalOptions.enableRUM /\ ~canEnableNative
  /\ handlers = 0 /\ ~tracking /\ flushTimers = 0 /\ ~native.initialized

\* C14: the tags, user, custom data and breadcrumbs of every payload are those
\* the session had at the moment the build of that payload started, whatever
\* session operations and other fault events ran while the build was suspended
\* or after it.
C14_SnapshotIsolation ==
  \A i \in Occs :
    occ[i].asBuilt.built =>
      occ[i].asBuilt = payloadOf(occ[i].error, occ[i].snap.tags, occ[i].snap.user,
                                 occ[i].snap.customData, occ[i].snap.breadcrumbs)

\* C15: in production mode the stack trace of every report is the raw frame
\* list with the device paths rewritten to the source-map prefix, the frames
\* without a file or with a noise file dropped, and the "(address at" suffix
\* stripped from the method names; so no frame of the report has a noise file
\* or a method name with the suffix.
C15_ProductionStackNormalized ==
  ~DEV =>
    \A i \in Occs :
      occ[i].payload.built =>
        LET trace == occ[i].payload.StackTrace IN
        /\ trace = toStackTrace(filterAndStrip(cleanFilePath(
                                   parseErrorStack(occ[i].error))))
        /\ \A n \in 1..Len(trace) :
             /\ trace[n].FileName # NullFile
             /\ ~matchInternalTrace(trace[n].FileName)
             /\ indexOfAddressAt(trace[n].MethodName) = 0

\* C16: every step that changes the session while the native reporter is
\* active leaves the state last propagated to the native reporter equal to the
\* session's: the tags last given to setTags, the user last given to setUser,
\* the data last given to setCustomData and the breadcrumbs recorded on the
\* native side (each compared once the native side was given one at all).
C16_NativeMirrorsSession ==
  [][(canEnableNative /\ curSession' # curSession) =>
       /\ native'.tags # {} => native'.tags = curSession'.tags
       /\ native'.user # EmptyObj => native'.user = curSession'.user
       /\ native'.customData # EmptyObj =>
            native'.customData = curSession'.customData
       /\ native'.breadcrumbs # <<>> =>
            native'.breadcrumbs = curSession'.breadcrumbs]_vars

\* C17: whatever the filter writes into the payload it is handed, at the top
\* level or below Details, the report handed to the transport is the payload
\* as it was built, and the step in which the filter runs leaves the live
\* session as it was.
C17_FilterCannotTamper ==
  [][\A i \in Occs :
       (occ[i].pc = "Built" /\ occ'[i].pc # "Built") =>
         /\ curSession' = curSession
         /\ occ'[i].payload = occ'[i].asBuilt
         /\ \A n \in 1..Len(occ'[i].nativeCalls) :
              occ'[i].nativeCalls[n].payload = JSONstringify(occ'[i].asBuilt)
         /\ \A n \in 1..Len(occ'[i].directCalls) :
              occ'[i].directCalls[n].payload = occ'[i].asBuilt]_vars

\* C18: a call of init made after a call of init has returned true does not
\* return true, installs no further global handler or rejection tracker,
\* calls no method of the native bridge and leaves the stored options as they
\* were; and no error passed to the global handler runs the pipeline more than
\* once.
C18_InitOnce ==
  [][/\ (initDone /\ lastOp'.op = "init" /\ calls' = calls + 1) =>
          /\ lastOp'.res = "false"
          /\ UNCHANGED <<handlers, tracking, flushTimers>>
          /\ UNCHANGED <<native, initWait>>
          /\ UNCHANGED <<GlobalOptions, canEnableNative>>
     /\ \A i \in 1..Len(occ') : occ'[i].runs = 1]_vars

\* the stage of the state machine Captured -> Normalized -> Built -> Filtered
\* -> outcome a pipeline is at
Stage(pc) ==
  CASE pc \in {"Captured", "Symbolicating"} -> 0
    [] pc = "AwaitEnv" -> 1
    [] pc = "Built" -> 2
    [] pc = "Sending" -> 3
    [] pc \in {"Suppressed", "HandedToNative", "Delivered", "Queued"} -> 4
    [] OTHER -> 5

\* C19: the pipeline of every error that has its stack moves through the
\* stages in order and never ends anywhere but in an outcome (delivered, handed
\* to the native reporter, queued, or dropped by the filter): no step takes it
\* back a stage within one run, and it never stops on a failure of its own.
C19_StagesInOrderToOutcome ==
  [][/\ \A i \in Occs :
          (~malformed(occ[i].error) /\ occ'[i].runs = occ[i].runs) =>
             Stage(occ'[i].pc) >= Stage(occ[i].pc)
     /\ \A i \in 1..Len(occ') :
          ~malformed(occ'[i].error) => occ'[i].pc # "Failed"]_vars


\* C20: an init that returns true while no native reporter is active sets
\* exactly one flush timer, and one that finds the native reporter active sets
\* none; no other step sets a timer; the flush, sendCachedReports with the
\* configured API key, is a step of its own that is no call into the client and
\* runs one timer down; and every timer that was set fires in the end, whether
\* or not a fault event occurs.
Scheduled == Len(flushed) + flushTimers

C20_FlushAfterInit ==
  /\ [][/\ IF /\ lastOp'.op = "init" /\ lastOp'.res = "true"
              /\ (calls' = calls + 1 \/ Len(initWait') < Len(initWait))
           THEN Scheduled' = Scheduled + (IF canEnableNative' THEN 0 ELSE 1)
           ELSE Scheduled' = Scheduled
        /\ (flushed' # flushed) =>
             (/\ flushed' = Append(flushed, GlobalOptions.apiKey)
              /\ flushTimers' = flushTimers - 1
              /\ UNCHANGED <<calls, lastOp, initWait>>)
        /\ (flushed' = flushed) => (flushTimers' >= flushTimers)]_vars
  /\ \A n \in 1..MaxCalls : (Scheduled >= n) ~> (Len(flushed) >= n)

\* the flush of an init without native reporter has run, and no fault event
\* has occurred
C20_Witness ==
  /\ flushed = <<"key-1">> /\ flushTimers = 0
  /\ initDone /\ ~canEnableNative /\ handlers = 1 /\ occ = <<>>

====
